---- MODULE Spec2Model ----
(***************************************************************************)
(* Model of src/chatbot.py: the Discord/OpenAI relay's per-user session    *)
(* state (conversation cache, cooldown flag, last interaction record) and  *)
(* the cooperative tasks that act on it (on_message, chat_with_openai,     *)
(* cooldown_user).  One action is one run of a coroutine from one          *)
(* suspension point (await) to the next.                                   *)
(***************************************************************************)
EXTENDS Integers, Sequences, FiniteSets, Bags, TLC

\* ---------------------------------------------------------------- bounds
\* The last second covered, the exchanges a user may commit, and the
\* keep_typing tasks that may be left running.
MaxTime == 4
MaxCommits == 4
MaxLeaks == 1

\* ------------------------------------------------------ program constants
max_cache == 5
cooldown_time == 2
ContinuationWindow == 120
DatetimeMin == -1000000

\* ------------------------------------------------------------ input sets
Users == {"u1", "u2"}
Channels == {"c1", "c2"}
Contents == {"a", "b"}
Replies == {"r"}
References == {"none", "bot", "other"}
TaskIds == {1, 2}
None == "None"
SYSTEM_MESSAGE == "sys"

VARIABLES
  now,                    \* datetime.utcnow(), in seconds
  user_message_cache,     \* user id -> deque of (role, content)
  user_cooldown,          \* user id -> 0 or cooldown_time
  user_last_interaction,  \* user id -> {"time", "channel"}
  tasks,                  \* on_message tasks in flight
  timers,                 \* sleeping cooldown_user tasks
  typing_tasks,           \* live keep_typing tasks
  committed,              \* history: every turn ever appended, per user
  calls                   \* calls the latest step made to Discord, OpenAI
                          \* and logger.error, in order

vars == <<now, user_message_cache, user_cooldown, user_last_interaction,
          tasks, timers, typing_tasks, committed, calls>>

\* A discord message as on_message reads it.
Message(a, bt, ch, ct, mn, rf) ==
  [author |-> a, bot |-> bt, channel |-> ch, content |-> ct,
   mentions |-> mn, reference |-> rf]

NoMessage == Message(None, FALSE, None, None, FALSE, "none")

IdleTask == [pc |-> "idle", message |-> NoMessage, messages |-> <<>>,
             ai_message |-> None]

DefaultInteraction == [time |-> DatetimeMin, channel |-> None]

Init ==
  /\ now = 0
  /\ user_message_cache = [u \in Users |-> <<>>]
  /\ user_cooldown = [u \in Users |-> 0]
  /\ user_last_interaction = [u \in Users |-> DefaultInteraction]
  /\ tasks = [t \in TaskIds |-> IdleTask]
  /\ timers = EmptyBag
  /\ typing_tasks = 0
  /\ committed = [u \in Users |-> <<>>]
  /\ calls = <<>>

\* ------------------------------------------------------- pure operators

\* As ShouldEngage, with the window's edge excluded.
ShouldEngageStrict(mentioned, replied_to_bot, last_interaction, utcnow, channel) ==
  LET within_timeframe ==
        utcnow - last_interaction.time < ContinuationWindow
      same_channel == last_interaction.channel = channel
  IN mentioned \/ replied_to_bot \/ (within_timeframe /\ same_channel)

\* on_message's admission test.
ShouldEngage(mentioned, replied_to_bot, last_interaction, utcnow, channel) ==
  LET within_timeframe ==
        utcnow - last_interaction.time <= ContinuationWindow
      same_channel == last_interaction.channel = channel
  IN mentioned \/ replied_to_bot \/ (within_timeframe /\ same_channel)

\* As Assemble, with the current message ahead of the cached turns.
AssembleMessageFirst(cache, content) ==
  <<[role |-> "system", content |-> SYSTEM_MESSAGE]>>
    \o <<[role |-> "user", content |-> content]>>
    \o [i \in 1 .. Len(cache) |-> [role |-> cache[i][1], content |-> cache[i][2]]]

\* The prompt chat_with_openai builds for one message.
Assemble(cache, content) ==
  <<[role |-> "system", content |-> SYSTEM_MESSAGE]>>
    \o [i \in 1 .. Len(cache) |-> [role |-> cache[i][1], content |-> cache[i][2]]]
    \o <<[role |-> "user", content |-> content]>>

\* As Evict, with the newest turn removed instead of the oldest.
EvictNewest(cache) ==
  IF Len(cache) >= max_cache THEN SubSeq(cache, 1, Len(cache) - 1) ELSE cache

\* The cache after a successful exchange: at most one popleft, two appends.
Evict(cache) ==
  IF Len(cache) >= max_cache THEN Tail(cache) ELSE cache

\* As CommitTurns, with the reply appended before the user's message.
CommitTurnsReplyFirst(cache, content, ai_message) ==
  Append(Append(Evict(cache), <<"assistant", ai_message>>), <<"user", content>>)

\* As CommitTurns, with the reply's append left out.
CommitTurnsUserOnly(cache, content, ai_message) ==
  Append(Evict(cache), <<"user", content>>)

CommitTurns(cache, content, ai_message) ==
  Append(Append(Evict(cache), <<"user", content>>), <<"assistant", ai_message>>)

\* As RecordInteraction, with the record of every user overwritten.
RecordInteractionOfAll(record, author, channel, utcnow) ==
  [u \in DOMAIN record |-> [time |-> utcnow, channel |-> channel]]

\* on_message's write of the interaction record after chat_with_openai returns.
RecordInteraction(record, author, channel, utcnow) ==
  [record EXCEPT ![author] = [time |-> utcnow, channel |-> channel]]

\* As OnCooldown, with the flag never seen as set.
OnCooldownIgnored(cooldown, user) == FALSE

\* As AuthorIsBot, with no author seen as a bot.
AuthorIsBotIgnored(m) == FALSE

\* on_message's test of the author.
AuthorIsBot(m) == m.bot

\* chat_with_openai's test of the cooldown flag.
OnCooldown(cooldown, user) == cooldown[user] # 0

\* As CooldownExpired, with the flag left set.
CooldownKept == cooldown_time

\* What the cooldown_user task stores when its sleep is over.
CooldownExpired == 0

Finish(t) == [tasks EXCEPT ![t] = IdleTask]

\* The external calls a step can make.
Send(what, channel) == [op |-> "send", what |-> what, channel |-> channel]

Complete(user, messages) ==
  [op |-> "complete", user |-> user, messages |-> messages]

LogError(what, user) == [op |-> "log_error", what |-> what, user |-> user]

\* --------------------------------------------------------------- actions

\* The client dispatches an inbound message: the on_message task is created.
Deliver(t, m) ==
  /\ tasks[t].pc = "idle"
  /\ tasks' = [tasks EXCEPT ![t] = [IdleTask EXCEPT !.pc = "new", !.message = m]]
  /\ calls' = <<>>
  /\ UNCHANGED <<now, user_message_cache, user_cooldown, user_last_interaction,
                 timers, typing_tasks, committed>>

\* As OnMessage, with the interaction record written before the admission
\* test's outcome is used.
OnMessageRecordsFirst(t) ==
  LET m == tasks[t].message
      mentioned == m.mentions
      replied_to_bot == m.reference # "none" /\ m.reference = "bot"
      last_interaction == user_last_interaction[m.author]
  IN /\ tasks[t].pc = "new"
     /\ \/ /\ AuthorIsBot(m)
           /\ tasks' = Finish(t)
           /\ UNCHANGED user_last_interaction
        \/ /\ ~AuthorIsBot(m)
           /\ ~ShouldEngage(mentioned, replied_to_bot, last_interaction, now,
                            m.channel)
           /\ tasks' = Finish(t)
           /\ user_last_interaction' =
                RecordInteraction(user_last_interaction, m.author, m.channel, now)
        \/ /\ ~AuthorIsBot(m)
           /\ ShouldEngage(mentioned, replied_to_bot, last_interaction, now,
                           m.channel)
           /\ tasks' = [tasks EXCEPT ![t].pc = "typing"]
           /\ UNCHANGED user_last_interaction
     /\ calls' = <<>>
     /\ UNCHANGED <<now, user_message_cache, user_cooldown, timers,
                    typing_tasks, committed>>

\* on_message up to its first await (entering channel.typing()).
OnMessage(t) ==
  LET m == tasks[t].message
      mentioned == m.mentions
      replied_to_bot == m.reference # "none" /\ m.reference = "bot"
      last_interaction == user_last_interaction[m.author]
  IN /\ tasks[t].pc = "new"
     /\ \/ /\ AuthorIsBot(m)
           /\ tasks' = Finish(t)
        \/ /\ ~AuthorIsBot(m)
           /\ ~ShouldEngage(mentioned, replied_to_bot, last_interaction, now,
                            m.channel)
           /\ tasks' = Finish(t)
        \/ /\ ~AuthorIsBot(m)
           /\ ShouldEngage(mentioned, replied_to_bot, last_interaction, now,
                           m.channel)
           /\ tasks' = [tasks EXCEPT ![t].pc = "typing"]
     /\ calls' = <<>>
     /\ UNCHANGED <<now, user_message_cache, user_cooldown,
                    user_last_interaction, timers, typing_tasks, committed>>

\* Entering channel.typing() raises: the handler ends before chat_with_openai.
TypingFail(t) ==
  /\ tasks[t].pc = "typing"
  /\ tasks' = Finish(t)
  /\ calls' = <<>>
  /\ UNCHANGED <<now, user_message_cache, user_cooldown, user_last_interaction,
                 timers, typing_tasks, committed>>

\* chat_with_openai from its call to its first await.  The completion call is
\* synchronous, so the cooldown test, the prompt and the call are one step.
ChatWithOpenai(t) ==
  LET m == tasks[t].message
      messages == Assemble(user_message_cache[m.author], m.content)
  IN /\ tasks[t].pc = "typing"
     /\ \/ \* on cooldown: send the wait notice
           /\ OnCooldown(user_cooldown, m.author)
           /\ tasks' = [tasks EXCEPT ![t].pc = "cooldown_send"]
           /\ calls' = <<Send("wait", m.channel)>>
           /\ UNCHANGED <<user_last_interaction, typing_tasks>>
        \/ \* settings.system_message raises after the typing task was created
           /\ ~OnCooldown(user_cooldown, m.author)
           /\ typing_tasks < MaxLeaks
           /\ typing_tasks' = typing_tasks + 1
           /\ tasks' = Finish(t)
           /\ calls' = <<>>
           /\ UNCHANGED user_last_interaction
        \/ \* the completion returns a reply: cancel typing, send the reply
           /\ ~OnCooldown(user_cooldown, m.author)
           /\ \E r \in Replies :
                tasks' = [tasks EXCEPT ![t].pc = "dispatch",
                                       ![t].messages = messages,
                                       ![t].ai_message = r]
           /\ calls' = <<Complete(m.author, messages),
                         Send("reply", m.channel)>>
           /\ typing_tasks' = (typing_tasks + 1) - 1
           /\ UNCHANGED user_last_interaction
        \/ \* openai.error.OpenAIError: cancel typing, send the error notice
           /\ ~OnCooldown(user_cooldown, m.author)
           /\ tasks' = [tasks EXCEPT ![t].pc = "error_send",
                                     ![t].messages = messages]
           /\ calls' = <<Complete(m.author, messages),
                         Send("error", m.channel)>>
           /\ typing_tasks' = (typing_tasks + 1) - 1
           /\ UNCHANGED user_last_interaction
        \/ \* any other exception of the call or of reading the response:
           \* cancel typing, log, return normally to on_message
           /\ ~OnCooldown(user_cooldown, m.author)
           /\ typing_tasks' = (typing_tasks + 1) - 1
           /\ user_last_interaction' =
                RecordInteraction(user_last_interaction, m.author, m.channel, now)
           /\ tasks' = Finish(t)
           /\ calls' = <<Complete(m.author, messages),
                         LogError("unexpected", m.author)>>
     /\ UNCHANGED <<now, user_message_cache, user_cooldown, timers, committed>>

\* The wait notice was sent: chat_with_openai returns, on_message records.
CooldownSendDone(t) ==
  LET m == tasks[t].message
  IN /\ tasks[t].pc = "cooldown_send"
     /\ user_last_interaction' =
          RecordInteraction(user_last_interaction, m.author, m.channel, now)
     /\ tasks' = Finish(t)
     /\ calls' = <<>>
     /\ UNCHANGED <<now, user_message_cache, user_cooldown, timers,
                    typing_tasks, committed>>

\* Sending the wait notice raised: the exception leaves on_message.
CooldownSendFail(t) ==
  /\ tasks[t].pc = "cooldown_send"
  /\ tasks' = Finish(t)
  /\ calls' = <<>>
  /\ UNCHANGED <<now, user_message_cache, user_cooldown, user_last_interaction,
                 timers, typing_tasks, committed>>

\* As DispatchDone, with no cooldown_user task created.
DispatchDoneNoTimer(t, horizon) ==
  LET m == tasks[t].message
  IN /\ tasks[t].pc = "dispatch"
     /\ Len(committed[m.author]) < 2 * MaxCommits
     /\ now + cooldown_time <= horizon
     /\ user_message_cache' =
          [user_message_cache EXCEPT ![m.author] =
             CommitTurns(@, m.content, tasks[t].ai_message)]
     /\ committed' =
          [committed EXCEPT ![m.author] =
             Append(Append(@, <<"user", m.content>>),
                    <<"assistant", tasks[t].ai_message>>)]
     /\ user_cooldown' = [user_cooldown EXCEPT ![m.author] = cooldown_time]
     /\ user_last_interaction' =
          RecordInteraction(user_last_interaction, m.author, m.channel, now)
     /\ tasks' = Finish(t)
     /\ calls' = <<>>
     /\ UNCHANGED <<now, typing_tasks, timers>>

\* send_large_message returned: cache update, cooldown, timer, record.  The
\* reply is not empty, so the send is an await.  The cooldown_user task is
\* taken to start its sleep at once; it wakes at any time from its deadline on.
DispatchDone(t, horizon) ==
  LET m == tasks[t].message
  IN /\ tasks[t].pc = "dispatch"
     /\ Len(committed[m.author]) < 2 * MaxCommits
     /\ now + cooldown_time <= horizon
     /\ user_message_cache' =
          [user_message_cache EXCEPT ![m.author] =
             CommitTurns(@, m.content, tasks[t].ai_message)]
     /\ committed' =
          [committed EXCEPT ![m.author] =
             Append(Append(@, <<"user", m.content>>),
                    <<"assistant", tasks[t].ai_message>>)]
     /\ user_cooldown' = [user_cooldown EXCEPT ![m.author] = cooldown_time]
     /\ timers' = timers (+) SetToBag({[user |-> m.author,
                                        deadline |-> now + cooldown_time]})
     /\ user_last_interaction' =
          RecordInteraction(user_last_interaction, m.author, m.channel, now)
     /\ tasks' = Finish(t)
     /\ calls' = <<>>
     /\ UNCHANGED <<now, typing_tasks>>

\* As DispatchFail, with the cooldown started although the send raised.
DispatchFailStartsCooldown(t) ==
  LET m == tasks[t].message
  IN /\ tasks[t].pc = "dispatch"
     /\ user_cooldown' = [user_cooldown EXCEPT ![m.author] = cooldown_time]
     /\ timers' = timers (+) SetToBag({[user |-> m.author,
                                        deadline |-> now + cooldown_time]})
     /\ user_last_interaction' =
          RecordInteraction(user_last_interaction, m.author, m.channel, now)
     /\ tasks' = Finish(t)
     /\ calls' = <<LogError("unexpected", m.author)>>
     /\ UNCHANGED <<now, user_message_cache, typing_tasks, committed>>

\* send_large_message raised: except Exception logs, chat_with_openai
\* returns normally and on_message records the interaction.
DispatchFail(t) ==
  LET m == tasks[t].message
  IN /\ tasks[t].pc = "dispatch"
     /\ user_last_interaction' =
          RecordInteraction(user_last_interaction, m.author, m.channel, now)
     /\ tasks' = Finish(t)
     /\ calls' = <<LogError("unexpected", m.author)>>
     /\ UNCHANGED <<now, user_message_cache, user_cooldown, timers,
                    typing_tasks, committed>>

\* The error notice was sent: chat_with_openai returns, on_message records.
ErrorSendDone(t) ==
  LET m == tasks[t].message
  IN /\ tasks[t].pc = "error_send"
     /\ user_last_interaction' =
          RecordInteraction(user_last_interaction, m.author, m.channel, now)
     /\ tasks' = Finish(t)
     /\ calls' = <<LogError("openai", m.author)>>
     /\ UNCHANGED <<now, user_message_cache, user_cooldown, timers,
                    typing_tasks, committed>>

\* Sending the error notice raised inside the except clause.
ErrorSendFail(t) ==
  /\ tasks[t].pc = "error_send"
  /\ tasks' = Finish(t)
  /\ calls' = <<>>
  /\ UNCHANGED <<now, user_message_cache, user_cooldown, user_last_interaction,
                 timers, typing_tasks, committed>>

\* A cooldown_user task wakes from its sleep and clears the flag.
CooldownUser(tm) ==
  /\ BagIn(tm, timers)
  /\ tm.deadline <= now
  /\ user_cooldown' = [user_cooldown EXCEPT ![tm.user] = CooldownExpired]
  /\ timers' = timers (-) SetToBag({tm})
  /\ calls' = <<>>
  /\ UNCHANGED <<now, user_message_cache, user_last_interaction, tasks,
                 typing_tasks, committed>>

\* Time passes: d seconds, up to the last instant the specification covers.
Tick(d, horizon) ==
  /\ now + d <= horizon
  /\ now' = now + d
  /\ calls' = <<>>
  /\ UNCHANGED <<user_message_cache, user_cooldown, user_last_interaction,
                 tasks, timers, typing_tasks, committed>>

\* -------------------------------------------------------- specifications

AllMessages ==
  {Message(a, bt, ch, ct, mn, rf) :
     a \in Users, bt \in BOOLEAN, ch \in Channels, ct \in Contents,
     mn \in BOOLEAN, rf \in References}

Timers(horizon) == [user : Users, deadline : 0 .. horizon]

Step(msgs, tids, steps, horizon) ==
  \/ \E t \in tids, m \in msgs : Deliver(t, m)
  \/ \E t \in tids : OnMessage(t)
  \/ \E t \in tids : TypingFail(t)
  \/ \E t \in tids : ChatWithOpenai(t)
  \/ \E t \in tids : CooldownSendDone(t)
  \/ \E t \in tids : CooldownSendFail(t)
  \/ \E t \in tids : DispatchDone(t, horizon)
  \/ \E t \in tids : DispatchFail(t)
  \/ \E t \in tids : ErrorSendDone(t)
  \/ \E t \in tids : ErrorSendFail(t)
  \/ \E tm \in Timers(horizon) : CooldownUser(tm)
  \/ \E d \in steps : Tick(d, horizon)

\* The messages of the main specification, two of them in flight at a time:
\* a user's mentions in one channel, the same user's plain follow-ups in
\* either channel, and a bot account's message.
MainMessages ==
  {m \in AllMessages :
     /\ m.reference = "none"
     /\ m.content = "a"
     /\ \/ m.mentions /\ ~m.bot /\ m.author = "u1" /\ m.channel = "c1"
        \/ ~m.mentions /\ ~m.bot /\ m.author = "u1"
        \/ m.mentions /\ m.bot /\ m.author = "u2" /\ m.channel = "c1"}

Next == Step(MainMessages, TaskIds, {1}, MaxTime)

Spec == Init /\ [][Next]_vars

\* The messages of the fair specification, two of them in flight at a time:
\* a user's mentions in one channel and a bot account's message.
FairMessages == {m \in MainMessages : m.mentions}

FairNext == Step(FairMessages, TaskIds, {1}, MaxTime)

\* The event loop keeps running: time passes and a cooldown_user task whose
\* sleep is over is resumed.
FairSpec ==
  /\ Init
  /\ [][FairNext]_vars
  /\ WF_vars(Tick(1, MaxTime))
  /\ \A tm \in Timers(MaxTime) : WF_vars(CooldownUser(tm))

\* The messages of the sequential specification, one in flight at a time:
\* as above, with either content.
SeqMessages ==
  {m \in AllMessages :
     /\ m.reference = "none"
     /\ \/ m.mentions /\ ~m.bot /\ m.author = "u1" /\ m.channel = "c1"
        \/ ~m.mentions /\ ~m.bot /\ m.author = "u1" /\ m.content = "b"
        \/ m.mentions /\ m.bot /\ m.author = "u2" /\ m.channel = "c1"
                      /\ m.content = "b"}

\* One task at a time needs a cooldown to pass between two exchanges.
SeqHorizon == MaxTime * cooldown_time

SeqNext == Step(SeqMessages, {1}, {1}, SeqHorizon)

SpecSeq == Init /\ [][SeqNext]_vars

\* The messages of the two-user specification, two of them in flight at a
\* time: each user's mentions, in different channels.
UsersMessages ==
  {m \in AllMessages :
     /\ m.reference = "none" /\ m.content = "a" /\ m.mentions /\ ~m.bot
     /\ \/ m.author = "u1" /\ m.channel = "c1"
        \/ m.author = "u2" /\ m.channel = "c2"}

\* Exchanges commit at second 0 and their cooldowns end at the horizon.
UsersHorizon == cooldown_time

UsersNext == Step(UsersMessages, TaskIds, {1}, UsersHorizon)

SpecUsers == Init /\ [][UsersNext]_vars

\* The messages of the gate specification: every combination of mention,
\* reply target, channel and bot flag for one author.
GateMessages ==
  {m \in AllMessages : m.author = "u1" /\ m.content = "a"}

\* The gate specification starts one second before the continuation window
\* of an interaction recorded at second 0 or 1 closes (or with no record).
GateRecords ==
  {DefaultInteraction} \cup [time : {0, 1}, channel : Channels]

GateInit ==
  /\ now = ContinuationWindow - 1
  /\ user_message_cache = [u \in Users |-> <<>>]
  /\ user_cooldown = [u \in Users |-> 0]
  /\ \E rec \in GateRecords :
       user_last_interaction =
         [u \in Users |-> IF u = "u1" THEN rec ELSE DefaultInteraction]
  /\ tasks = [t \in TaskIds |-> IdleTask]
  /\ timers = EmptyBag
  /\ typing_tasks = 0
  /\ committed = [u \in Users |-> <<>>]
  /\ calls = <<>>

GateHorizon == ContinuationWindow + cooldown_time

GateNext == Step(GateMessages, {1}, {1}, GateHorizon)

SpecGate == GateInit /\ [][GateNext]_vars

\* ----------------------------------------------------------------- claims

Min(a, b) == IF a <= b THEN a ELSE b

LastTurns(s, n) == SubSeq(s, Len(s) - n + 1, Len(s))

\* The task whose coroutine runs in this step.
Runs(t) == tasks'[t] # tasks[t]

HasComplete(cs) == \E i \in 1 .. Len(cs) : cs[i].op = "complete"

\* C1: in every reachable state every user's cache holds at most max_cache
\* turns.
CacheLengthBounded ==
  \A u \in Users : Len(user_message_cache[u]) <= max_cache

\* C2: after k successful exchanges of one user, one after the other from an
\* empty cache, the cache is the min(2k, max_cache) most recently committed
\* turns, oldest first.
CacheHoldsMostRecent ==
  \A u \in Users :
    user_message_cache[u] =
      LastTurns(committed[u], Min(Len(committed[u]), max_cache))

\* C3: a user's interaction record changes only in a step that commits an
\* exchange of that user; the step that ends an exchange rejected for cooldown
\* or failed by the completion call leaves the author's record as it was.
RecordChangesOnlyOnCommit ==
  [][/\ \A u \in Users :
          user_last_interaction'[u] # user_last_interaction[u]
            => Len(committed'[u]) > Len(committed[u])
     /\ \A t \in TaskIds :
          (tasks[t].pc \in {"cooldown_send", "error_send"}
             /\ tasks'[t].pc = "idle")
            => user_last_interaction'[tasks[t].message.author]
                 = user_last_interaction[tasks[t].message.author]]_vars

\* The step by which task t's exchange fails: the completion call raised, the
\* error notice's send ended, or the reply's send raised.
FailureStep(t) ==
  \/ tasks[t].pc = "typing" /\ Runs(t) /\ HasComplete(calls')
       /\ tasks'[t].pc # "dispatch"
  \/ tasks[t].pc = "error_send" /\ tasks'[t].pc = "idle"
  \/ tasks[t].pc = "dispatch" /\ tasks'[t].pc = "idle"
       /\ calls' = <<LogError("unexpected", tasks[t].message.author)>>

\* C4: a step in which the completion call fails, or the send of the reply
\* that followed a successful completion fails, changes no cache and no
\* cooldown flag and schedules no cooldown timer.
FailureLeavesCacheAndCooldown ==
  [][\A t \in TaskIds :
       FailureStep(t) =>
         /\ user_message_cache' = user_message_cache
         /\ user_cooldown' = user_cooldown
         /\ timers' = timers]_vars

\* C4 witness: the reply's send has just failed for a user with cached turns,
\* and the user is not on cooldown.
FailedDispatchSeen ==
  /\ calls = <<LogError("unexpected", "u1")>>
  /\ Len(user_message_cache["u1"]) > 0
  /\ user_cooldown["u1"] = 0

\* C5: a task whose author is on cooldown when chat_with_openai starts sends
\* the wait notice and nothing else, makes no completion call and leaves the
\* caches alone; no completion call is ever made for a user whose cooldown
\* flag is set when the call is made.
CooldownShortCircuits ==
  [][/\ \A t \in TaskIds :
          (tasks[t].pc = "typing" /\ Runs(t)
             /\ user_cooldown[tasks[t].message.author] # 0)
            => /\ ~HasComplete(calls')
               /\ user_message_cache' = user_message_cache
               /\ tasks'[t].pc \in {"cooldown_send", "idle"}
               /\ tasks'[t].pc = "cooldown_send"
                    => /\ calls' = <<Send("wait", tasks[t].message.channel)>>
                       /\ tasks'[t].messages = <<>>
     /\ \A i \in 1 .. Len(calls') :
          calls'[i].op = "complete" => user_cooldown[calls'[i].user] = 0]_vars

\* C5 witness: the wait notice is being sent to a user on cooldown who has
\* cached turns.
WaitNoticeSeen ==
  \E t \in TaskIds :
    /\ tasks[t].pc = "cooldown_send"
    /\ calls = <<Send("wait", tasks[t].message.channel)>>
    /\ user_cooldown[tasks[t].message.author] # 0
    /\ Len(user_message_cache[tasks[t].message.author]) > 0

\* C6: a cooldown flag is not cleared while a cooldown started later for the
\* same user has not yet run for cooldown_time.
CooldownClearedOnlyAfterLatestStart ==
  [][\A u \in Users :
       (user_cooldown[u] # 0 /\ user_cooldown'[u] = 0)
         => ~\E tm \in BagToSet(timers') :
               tm.user = u /\ tm.deadline > now]_vars

\* C7: every cooldown that is set is eventually cleared.
CooldownEventuallyCleared ==
  \A u \in Users : (user_cooldown[u] # 0) ~> (user_cooldown[u] = 0)

\* C7 witness: a user who committed exchanges is off cooldown again and no
\* timer is left.
CooldownClearedSeen ==
  /\ Len(committed["u1"]) > 0
  /\ user_cooldown["u1"] = 0
  /\ timers = EmptyBag

\* The seconds since the author's recorded interaction, and whether the
\* message is in the recorded channel.
Elapsed(m) == now - user_last_interaction[m.author].time

InLastChannel(m) == m.channel = user_last_interaction[m.author].channel

Admitted(t) == tasks'[t].pc = "typing"

CommitStep(t) ==
  /\ tasks[t].pc = "dispatch"
  /\ tasks'[t].pc = "idle"
  /\ calls' = <<>>

\* C9: the step that completes a successful exchange leaves the user turn and
\* then the assistant turn as the last two entries of the author's cache
\* (the whole cache, if it was empty), the author's cooldown flag set, and the
\* author's interaction record at the current time and the message's channel.
SuccessPostState ==
  [][\A t \in TaskIds :
       LET m == tasks[t].message
           old == user_message_cache[m.author]
           new == user_message_cache'[m.author]
       IN CommitStep(t) =>
            /\ Len(new) >= 2
            /\ new[Len(new) - 1] = <<"user", m.content>>
            /\ new[Len(new)] = <<"assistant", tasks[t].ai_message>>
            /\ old = <<>> => Len(new) = 2
            /\ user_cooldown'[m.author] # 0
            /\ user_last_interaction'[m.author].time = now
            /\ user_last_interaction'[m.author].channel = m.channel]_vars

\* C9 witness: a first exchange has just succeeded: two turns, cooldown set,
\* record at this second and channel.
FirstExchangeSeen ==
  /\ calls = <<>>
  /\ \E c \in Contents :
       user_message_cache["u1"] = <<<<"user", c>>, <<"assistant", "r">>>>
  /\ user_cooldown["u1"] # 0
  /\ user_last_interaction["u1"] = [time |-> now, channel |-> "c1"]
  /\ \E tm \in BagToSet(timers) : tm.deadline = now + cooldown_time

\* C10: the completion call of a task gets the system message, then the
\* author's cached turns in cache order, then the task's message as a user
\* turn, and the step that makes the call changes no cache.
PromptIsSystemCacheMessage ==
  [][\A t \in TaskIds :
       LET m == tasks[t].message
           cache == user_message_cache[m.author]
           n == Len(cache)
       IN (tasks[t].pc = "typing" /\ Runs(t) /\ HasComplete(calls')) =>
            /\ calls'[1].op = "complete"
            /\ Len(calls'[1].messages) = n + 2
            /\ calls'[1].messages[1] =
                 [role |-> "system", content |-> SYSTEM_MESSAGE]
            /\ \A i \in 1 .. n :
                 /\ calls'[1].messages[i + 1].role = cache[i][1]
                 /\ calls'[1].messages[i + 1].content = cache[i][2]
            /\ calls'[1].messages[n + 2] =
                 [role |-> "user", content |-> m.content]
            /\ user_message_cache' = user_message_cache]_vars

\* C10 witness: a completion call was made with two cached turns between the
\* system message and a message that differs from the cached user turn.
PromptWithHistorySeen ==
  /\ Len(calls) > 0
  /\ calls[1].op = "complete"
  /\ Len(calls[1].messages) = 4
  /\ calls[1].messages[2].content # calls[1].messages[4].content

\* The step that ends task t's handler.
Ends(t) == tasks[t].pc # "idle" /\ tasks'[t].pc = "idle"

\* The cached history a prompt replays: the prompt without the system message
\* and the current message, as cache entries.
Replayed(messages) ==
  [i \in 1 .. Len(messages) - 2 |->
     <<messages[i + 1].role, messages[i + 1].content>>]

\* C11: the step that ends an exchange leaves no keep_typing task of that
\* exchange running, whichever way the exchange ends.
TypingCancelledOnEveryExit ==
  [][\A t \in TaskIds : Ends(t) => typing_tasks' <= typing_tasks]_vars

\* C12: at most one task per user is between its prompt and its commit, and
\* the history in a committing task's prompt is the author's cache as it is
\* just before the commit.
ExchangesSerialized ==
  [][/\ \A t1, t2 \in TaskIds :
          (tasks[t1].pc = "dispatch" /\ tasks[t2].pc = "dispatch"
             /\ tasks[t1].message.author = tasks[t2].message.author)
            => t1 = t2
     /\ \A t \in TaskIds :
          CommitStep(t) =>
            Replayed(tasks[t].messages)
              = user_message_cache[tasks[t].message.author]]_vars

\* C13: no completion call is made for a user while a task of that user holds
\* a reply that it has not committed yet, or while a cooldown started for that
\* user has not run for cooldown_time.
NoBackToBackCompletions ==
  [][\A i \in 1 .. Len(calls') :
       calls'[i].op = "complete" =>
         /\ ~\E t \in TaskIds :
               /\ tasks[t].pc = "dispatch"
               /\ tasks[t].message.author = calls'[i].user
         /\ ~\E tm \in BagToSet(timers) :
               tm.user = calls'[i].user /\ tm.deadline > now]_vars

\* C14: the step in which an exchange fails, by the completion call or by the
\* send of the reply, sends the error notice to the channel.
FailureSendsNotice ==
  [][\A t \in TaskIds :
       LET m == tasks[t].message
           failed ==
             \/ tasks[t].pc = "typing" /\ Runs(t) /\ HasComplete(calls')
                  /\ tasks'[t].pc # "dispatch"
             \/ tasks[t].pc = "dispatch" /\ Ends(t) /\ calls' # <<>>
       IN failed =>
            \E i \in 1 .. Len(calls') : calls'[i] = Send("error", m.channel)]_vars

\* What a message's handling may not touch when it is dropped.
SharedStateUnchanged ==
  /\ user_message_cache' = user_message_cache
  /\ user_cooldown' = user_cooldown
  /\ user_last_interaction' = user_last_interaction
  /\ timers' = timers
  /\ typing_tasks' = typing_tasks

\* C15: the step in which on_message does not admit a message of a user who
\* is no bot changes no cache, cooldown flag or interaction record, creates
\* no timer or typing task, and sends and calls nothing.
SkipIsSilent ==
  [][\A t \in TaskIds :
       (tasks[t].pc = "new" /\ ~tasks[t].message.bot /\ Ends(t))
         => SharedStateUnchanged /\ calls' = <<>>]_vars

\* C15 witness: a plain message in another channel than the recorded one is
\* about to be handled, and its author has a record and a cooldown.
SkippedMessagePending ==
  \E t \in TaskIds :
    LET m == tasks[t].message
    IN /\ tasks[t].pc = "new"
       /\ ~m.bot /\ ~m.mentions /\ m.reference # "bot"
       /\ user_last_interaction[m.author] # DefaultInteraction
       /\ ~InLastChannel(m)
       /\ user_cooldown[m.author] # 0

\* The author of the message task t handles in this step.
Author(t) ==
  IF tasks[t].pc = "idle" THEN tasks'[t].message.author
  ELSE tasks[t].message.author

\* C16: a step of a task leaves the cache, cooldown flag and interaction
\* record of every user but the message's author as they were, and a step of
\* a cooldown timer changes the flag of the timer's user only.
OtherUsersUntouched ==
  [][/\ \A t \in TaskIds : \A v \in Users :
          (Runs(t) /\ v # Author(t)) =>
            /\ user_message_cache'[v] = user_message_cache[v]
            /\ user_cooldown'[v] = user_cooldown[v]
            /\ user_last_interaction'[v] = user_last_interaction[v]
     /\ \A v \in Users :
          ((\A t \in TaskIds : ~Runs(t)) /\ user_cooldown'[v] # user_cooldown[v])
            => \E tm \in BagToSet(timers) :
                 tm.user = v /\ CopiesIn(tm, timers') < CopiesIn(tm, timers)]_vars

\* C16 witness: both users have cached turns, and the timer of one has
\* cleared its flag while the other is still on cooldown.
TwoUsersSeen ==
  /\ Len(user_message_cache["u1"]) > 0
  /\ Len(user_message_cache["u2"]) > 0
  /\ user_cooldown["u1"] = 0
  /\ user_cooldown["u2"] # 0
  /\ user_last_interaction["u1"].channel # user_last_interaction["u2"].channel

\* C17: a user's cache is always the last turns of all the turns committed
\* for that user, in commit order, and a step removes turns from the head of
\* the cache only.
CacheIsSuffixOfHistory ==
  [][\A u \in Users :
       LET old == user_message_cache[u]
           new == user_message_cache'[u]
       IN /\ Len(new) <= Len(committed'[u])
          /\ new = LastTurns(committed'[u], Len(new))
          /\ \E k \in 0 .. Len(old) :
               /\ Len(new) >= Len(old) - k
               /\ \A i \in 1 .. Len(old) - k : new[i] = old[k + i]]_vars

\* C17 witness: the oldest turn was evicted and the cache starts with the
\* reply that followed it; the cached user turns differ.
EvictionSeen ==
  \E u \in Users :
    /\ Len(user_message_cache[u]) < Len(committed[u])
    /\ user_message_cache[u][1][1] = "assistant"
    /\ user_message_cache[u][2] # user_message_cache[u][4]

\* C18: in every state every cached user turn is followed at once by an
\* assistant turn, the reply of the same exchange.
NoPartialExchangeVisible ==
  \A u \in Users :
    LET cache == user_message_cache[u]
        offset == Len(committed[u]) - Len(cache)
    IN \A i \in 1 .. Len(cache) :
         cache[i][1] = "user" =>
           /\ i < Len(cache)
           /\ cache[i + 1][1] = "assistant"
           /\ (offset + i) % 2 = 1
           /\ committed[u][offset + i + 1] = cache[i + 1]

\* C18 witness: after an eviction the cache starts with a reply whose user
\* turn is gone, while another task of the user is still in flight.
OrphanReplySeen ==
  /\ Len(user_message_cache["u1"]) > max_cache
  /\ user_message_cache["u1"][1][1] = "assistant"
  /\ \E t \in TaskIds : tasks[t].pc = "dispatch"

\* C19: the step in which on_message handles a bot's message ends the
\* handler, changes no cache, cooldown flag or interaction record, and sends
\* and calls nothing, whatever the message mentions or replies to.
BotMessagesDropped ==
  [][\A t \in TaskIds :
       (tasks[t].pc = "new" /\ tasks[t].message.bot /\ Runs(t))
         => /\ tasks'[t].pc = "idle"
            /\ SharedStateUnchanged
            /\ calls' = <<>>]_vars

\* C19 witness: a bot's message that mentions the bot, replies to it and is
\* inside the continuation window of its channel is about to be handled.
BotMessagePending ==
  \E t \in TaskIds :
    LET m == tasks[t].message
    IN /\ tasks[t].pc = "new"
       /\ m.bot /\ m.mentions /\ m.reference = "bot"
       /\ InLastChannel(m)
       /\ Elapsed(m) <= ContinuationWindow

\* C20: in every state a user whose cooldown flag is set has a cooldown_user
\* task pending.
FlagHasTimer ==
  \A u \in Users :
    user_cooldown[u] # 0 => \E tm \in BagToSet(timers) : tm.user = u

\* C20 witness: a user is on cooldown for the second time, the first
\* cooldown's timer having fired.
SecondCooldownSeen ==
  /\ user_cooldown["u1"] # 0
  /\ Len(committed["u1"]) >= 4
  /\ BagCardinality(timers) = 1

====
